---- MODULE Spec2Model ----
(***************************************************************************)
(* Model of the SAS banking demo stack.                                    *)
(*                                                                         *)
(*   pipeline app : src/model_pipeline/src/app.py                          *)
(*       SASModelLoader, BankingIntelligenceEngine and the FastAPI         *)
(*       handlers /health, /predict, /assess/comprehensive,                *)
(*       /advisory/improve.                                                *)
(*   draft app    : src/Initial_draft_plan/SAS_Event/credit_risk_pipeline/ *)
(*       src/app.py : ModelLoader and predict_credit_risk.                 *)
(*                                                                         *)
(* Numbers.  Python floats are modelled in fixed point:                    *)
(*   money (Income, LoanAmount)        whole dollars                       *)
(*   DebtToIncome                      hundredths      (25  = 0.25)        *)
(*   SocialMediaRiskScore, DeviceUsageScore  tenths    (3 = 0.3, 40 = 4.0) *)
(*   logit (linear_combo), coefficients      millionths (micro-logits)     *)
(*   probability before rounding       1e-8 units (FixOne = 1.0)           *)
(*   probability after round(p, 4)     1e-4 units (3000 = 0.3)             *)
(* TLC integers are 32 bit, so products are split (MulFix) and quotients   *)
(* are produced digit by digit (DivDigits).                                *)
(***************************************************************************)
EXTENDS Integers, Sequences, FiniteSets, TLC

----------------------------------------------------------------------------
(* Fixed-point arithmetic                                                  *)

Max(a, b) == IF a >= b THEN a ELSE b
Min(a, b) == IF a <= b THEN a ELSE b
Abs(a) == IF a < 0 THEN -a ELSE a

\* 1.0 of the probability scale, and its square root (the split point of MulFix).
FixHalf == 100 * 100
FixOne == FixHalf * FixHalf

RECURSIVE Pow10(_)
Pow10(k) == IF k = 0 THEN 1 ELSE 10 * Pow10(k - 1)

\* floor(r * 10^k / d) for 0 <= r < d, one decimal digit at a time.
RECURSIVE DivDigits(_, _, _)
DivDigits(r, d, k) ==
    IF k = 0 THEN 0
    ELSE ((r * 10) \div d) * Pow10(k - 1) + DivDigits((r * 10) % d, d, k - 1)

\* a * b / FixOne for 0 <= a, b <= FixOne.
MulFix(a, b) ==
    LET ah == a \div FixHalf
        al == a % FixHalf
        bh == b \div FixHalf
        bl == b % FixHalf
    IN  ah * bh + (ah * bl + al * bh) \div FixHalf + (al * bl) \div FixOne

\* Taylor series of e^(-r) for 0 <= r <= FixOne/2: the terms k..9 added to acc.
RECURSIVE TaylorExpNeg(_, _, _, _)
TaylorExpNeg(r, k, term, acc) ==
    IF k > 9 THEN acc
    ELSE LET t == MulFix(term, r) \div k
         IN  TaylorExpNeg(r, k + 1, t, IF k % 2 = 1 THEN acc - t ELSE acc + t)

RECURSIVE SquareTimes(_, _)
SquareTimes(v, n) == IF n = 0 THEN v ELSE SquareTimes(MulFix(v, v), n - 1)

\* e^(-x) in 1e-8 units for a logit magnitude x (micro-logits), 0 <= x < 20 logits:
\* e^(-x) = (e^(-x/64))^64.
ExpNeg(x) == SquareTimes(TaylorExpNeg((x * 100) \div 64, 1, FixOne, FixOne), 6)

\* np.exp / the logistic function 1 / (1 + e^(-logit)), logit in micro-logits,
\* result in 1e-8 units.  Beyond 20 logits e^(-|x|) is below the resolution.
Sigmoid(logit) ==
    IF logit >= 20000000 THEN FixOne
    ELSE IF logit <= -20000000 THEN 0
    ELSE LET e == ExpNeg(Abs(logit))
         IN  IF logit >= 0
             THEN DivDigits(FixOne, FixOne + e, 8)
             ELSE DivDigits(e, FixOne + e, 8)

\* Python round(p, 4) of a probability in 1e-8 units: result in 1e-4 units
\* (round half to even).
Round4(p) ==
    LET q == p \div 10000
        r == p % 10000
    IN  IF r > 5000 THEN q + 1
        ELSE IF r < 5000 THEN q
        ELSE IF q % 2 = 0 THEN q ELSE q + 1

----------------------------------------------------------------------------
(* Requests: CreditRiskRequest (pipeline app) / PredictionRequest (draft)    *)

RequiredNames ==
    {"Income", "Age", "LoanAmount", "CreditScore", "DebtToIncome",
     "EmploymentYears", "LoanTerm"}

OptionalNames ==
    {"SocialMediaRiskScore", "DeviceUsageScore", "NumberOfProducts",
     "HasInvestmentAccount", "AccountTenure", "LatePayments", "OverdraftEvents"}

FieldNames == RequiredNames \cup OptionalNames

\* The Field(default, ...) of each optional field of CreditRiskRequest.
RequestDefaults ==
    [SocialMediaRiskScore |-> 3, DeviceUsageScore |-> 7, NumberOfProducts |-> 2,
     HasInvestmentAccount |-> FALSE, AccountTenure |-> 24, LatePayments |-> 0,
     OverdraftEvents |-> 1]

\* dict.get(key, default)
Get(f, k, d) == IF k \in DOMAIN f THEN f[k] ELSE d

\* Pydantic validation: a body lacking a required field is rejected (422).
ValidRequest(raw) == RequiredNames \subseteq DOMAIN raw

\* request.dict(): every declared field, the omitted optional ones at their
\* Field default.
RequestDict(raw) ==
    [k \in FieldNames |-> IF k \in DOMAIN raw THEN raw[k] ELSE RequestDefaults[k]]

\* The draft PredictionRequest declares the seven required fields only.
DraftRequestDict(raw) == [k \in RequiredNames |-> raw[k]]

----------------------------------------------------------------------------
(* BankingIntelligenceEngine                                               *)

\* Mutant of LoanToIncomeDivisor: the income itself.
LoanToIncomeDivisorUnguarded(income) == income

\* max(income, 1), the divisor of the loan-to-income ratio.
LoanToIncomeDivisor(income) == Max(income, 1)

\* loan_amount / max(income, 1) * 1.8 in micro-logits.  A term of 1000 logits
\* or more is reported as 1000 logits: the other terms stay within a few
\* hundred logits, so the clamp to 4.5 that follows gives the same result.
LoanToIncomeTerm(loan, income) ==
    LET d == LoanToIncomeDivisor(income)
        n == loan * 18
    IN  IF d = 0 THEN 0
        ELSE IF n \div d >= 10000 THEN 1000000000
        ELSE (n \div d) * 100000 + DivDigits(n % d, d, 5)

\* The assessment raises ZeroDivisionError when the divisor is 0.
EngineRaises(features) == LoanToIncomeDivisor(Get(features, "Income", 50000)) = 0

\* Age risk curve.
AgeTerm(age) ==
    IF age < 25 \/ age > 65 THEN 600000
    ELSE IF age < 30 \/ age > 55 THEN 200000
    ELSE 0

\* Mutant of PremiumDiscount: the premium interaction added to the logit.
PremiumDiscountInverted(income, has_investment, credit_score) ==
    IF income > 100000 /\ has_investment /\ credit_score > 750
    THEN -600000 ELSE 0

\* The premium-customer interaction: 0.6 taken off the logit.
PremiumDiscount(income, has_investment, credit_score) ==
    IF income > 100000 /\ has_investment /\ credit_score > 750
    THEN 600000 ELSE 0

\* linear_combo before it is clamped, in micro-logits.
LinearCombo(features) ==
    LET income  == Get(features, "Income", 50000)
        credit_score == Get(features, "CreditScore", 650)
        debt_ratio == Get(features, "DebtToIncome", 35)
        emp_years == Get(features, "EmploymentYears", 3)
        age == Get(features, "Age", 35)
        loan_amount == Get(features, "LoanAmount", 25000)
        social_risk == Get(features, "SocialMediaRiskScore", 30)
        device_score == Get(features, "DeviceUsageScore", 500)
        num_products == Get(features, "NumberOfProducts", 2)
        has_investment == Get(features, "HasInvestmentAccount", FALSE)
        late_payments == Get(features, "LatePayments", 0)
        overdrafts == Get(features, "OverdraftEvents", 0)
        tenure == Get(features, "AccountTenure", emp_years * 12)
    IN  -2800000
        + (850 - credit_score) * 4500
        - (income - 50000) * 12
        + debt_ratio * 42000
        - emp_years * 80000
        + AgeTerm(age)
        + LoanToIncomeTerm(loan_amount, income)
        + (social_risk - 10) * 35000
        + (500 - device_score) * 800
        - (num_products - 1) * 250000
        - (IF has_investment THEN 450000 ELSE 0)
        + late_payments * 400000
        + overdrafts * 250000
        - Min(tenure, 60) * 8000
        + (IF debt_ratio > 40 /\ credit_score < 650 THEN 800000 ELSE 0)
        - PremiumDiscount(income, has_investment, credit_score)
        + (IF age < 30 /\ social_risk >= 40 THEN 400000 ELSE 0)

\* max(-4.5, min(4.5, linear_combo))
ClampLogit(x) == Max(-4500000, Min(4500000, x))

\* max(0.005, min(0.85, risk_probability)), 1e-8 units.
ClampProbability(p) == Max(500000, Min(85000000, p))

\* risk_probability before rounding, 1e-8 units.
RiskProbability(features) ==
    ClampProbability(Sigmoid(ClampLogit(LinearCombo(features))))

\* Mutant of RiskLevelOf: the upper threshold typed as 0.9.
RiskLevelOfHighAt90(p) ==
    IF p < 30000000 THEN "low_risk"
    ELSE IF p < 90000000 THEN "medium_risk"
    ELSE "high_risk"

\* Thresholds 0.3 and 0.7 on the unrounded probability.
RiskLevelOf(p) ==
    IF p < 30000000 THEN "low_risk"
    ELSE IF p < 70000000 THEN "medium_risk"
    ELSE "high_risk"

\* abs((social-3)*0.35) + abs((50-device)*0.008) + late*0.4 + overdrafts*0.25,
\* micro units.
AltDataImpact(features) ==
    Abs((Get(features, "SocialMediaRiskScore", 30) - 30) * 35000)
    + Abs((500 - Get(features, "DeviceUsageScore", 500)) * 800)
    + Get(features, "LatePayments", 0) * 400000
    + Get(features, "OverdraftEvents", 0) * 250000

\* Mutant of SegmentOf: the risk level tested before the premium conditions.
SegmentOfRiskFirst(features, risk_level) ==
    LET income == Get(features, "Income", 0)
        credit_score == Get(features, "CreditScore", 0)
        has_investment == Get(features, "HasInvestmentAccount", FALSE)
    IN  IF risk_level = "high_risk" THEN "high_risk"
        ELSE IF income > 100000 /\ credit_score > 750 /\ has_investment THEN "premium"
        ELSE IF income < 40000 \/ credit_score < 650 THEN "emerging"
        ELSE "standard"

SegmentOf(features, risk_level) ==
    LET income == Get(features, "Income", 0)
        credit_score == Get(features, "CreditScore", 0)
        has_investment == Get(features, "HasInvestmentAccount", FALSE)
    IN  IF income > 100000 /\ credit_score > 750 /\ has_investment THEN "premium"
        ELSE IF risk_level = "high_risk" THEN "high_risk"
        ELSE IF income < 40000 \/ credit_score < 650 THEN "emerging"
        ELSE "standard"

\* ltv_multiplier, in tenths.
LtvMultiplier(segment) ==
    CASE segment = "premium" -> 25
      [] segment = "standard" -> 15
      [] segment = "emerging" -> 10
      [] segment = "high_risk" -> 5

\* Income * 0.15 * multiplier, in tenths of a cent.
LifetimeValue(features, segment) ==
    Get(features, "Income", 0) * 15 * LtvMultiplier(segment)

\* (base_interest_rate + risk_premiums[risk_level]) * 100, in hundredths of a
\* percent.
RiskAdjustedPricing(risk_level) ==
    450 + (CASE risk_level = "low_risk" -> 0
             [] risk_level = "medium_risk" -> 150
             [] risk_level = "high_risk" -> 350)

\* Mutant of IdentifyUpsellOpportunities: the credit card offered first.
IdentifyUpsellCardFirst(features, segment, risk_level) ==
    LET income == Get(features, "Income", 0)
        has_investment == Get(features, "HasInvestmentAccount", FALSE)
        num_products == Get(features, "NumberOfProducts", 0)
    IN  (IF risk_level = "low_risk"
         THEN (IF income > 80000 THEN <<"Premium Credit Card">> ELSE <<>>)
              \o (IF ~has_investment /\ income > 60000
                  THEN <<"Investment Portfolio Management">> ELSE <<>>)
              \o (IF num_products < 3 THEN <<"Mortgage Pre-approval">> ELSE <<>>)
         ELSE <<>>)
        \o (IF segment = "premium"
            THEN <<"Private Banking Services", "Wealth Management">> ELSE <<>>)
        \o (IF Get(features, "Age", 0) > 45 /\ ~has_investment
            THEN <<"Retirement Planning">> ELSE <<>>)

IdentifyUpsellOpportunities(features, segment, risk_level) ==
    LET income == Get(features, "Income", 0)
        has_investment == Get(features, "HasInvestmentAccount", FALSE)
        num_products == Get(features, "NumberOfProducts", 0)
    IN  (IF risk_level = "low_risk"
         THEN (IF ~has_investment /\ income > 60000
               THEN <<"Investment Portfolio Management">> ELSE <<>>)
              \o (IF income > 80000 THEN <<"Premium Credit Card">> ELSE <<>>)
              \o (IF num_products < 3 THEN <<"Mortgage Pre-approval">> ELSE <<>>)
         ELSE <<>>)
        \o (IF segment = "premium"
            THEN <<"Private Banking Services", "Wealth Management">> ELSE <<>>)
        \o (IF Get(features, "Age", 0) > 45 /\ ~has_investment
            THEN <<"Retirement Planning">> ELSE <<>>)

\* The bucketed contributions of _calculate_investment_readiness, in tenths.
InvestmentIncomeFactor(income) ==
    IF income > 100000 THEN 4 ELSE IF income > 60000 THEN 2 ELSE 0

\* Mutant of InvestmentAgeFactor: the prime-age bucket worth 0.4.
InvestmentAgeFactorHeavy(age) ==
    IF 30 <= age /\ age <= 55 THEN 4 ELSE IF 25 <= age /\ age <= 65 THEN 2 ELSE 0

InvestmentAgeFactor(age) ==
    IF 30 <= age /\ age <= 55 THEN 3 ELSE IF 25 <= age /\ age <= 65 THEN 2 ELSE 0

InvestmentCreditFactor(credit) ==
    IF credit > 750 THEN 2 ELSE IF credit > 650 THEN 1 ELSE 0

InvestmentStabilityFactor(emp_years) == IF emp_years > 5 THEN 1 ELSE 0

\* score before min(score, 1.0), in tenths.
InvestmentRawScore(features) ==
    InvestmentIncomeFactor(Get(features, "Income", 0))
    + InvestmentAgeFactor(Get(features, "Age", 0))
    + InvestmentCreditFactor(Get(features, "CreditScore", 0))
    + InvestmentStabilityFactor(Get(features, "EmploymentYears", 0))

\* min(score, 1.0), in tenths.
CalculateInvestmentReadiness(features) == Min(InvestmentRawScore(features), 10)

\* Mutant of GenerateImprovementPlan: the plan built for every risk level.
GenerateImprovementPlanAlways(features, risk_level) ==
    (IF Get(features, "DebtToIncome", 0) > 40
     THEN <<"Reduce Debt-to-Income Ratio">> ELSE <<>>)
    \o (IF Get(features, "LatePayments", 0) > 2
        THEN <<"Establish Perfect Payment History">> ELSE <<>>)
    \o (IF Get(features, "CreditScore", 0) < 650
        THEN <<"Improve Credit Score">> ELSE <<>>)
    \o (IF Get(features, "SocialMediaRiskScore", 0) > 6
        THEN <<"Digital Footprint Optimization">> ELSE <<>>)

\* The "action" of each recommendation, in the order they are appended.
GenerateImprovementPlan(features, risk_level) ==
    IF risk_level = "high_risk"
    THEN (IF Get(features, "DebtToIncome", 0) > 40
          THEN <<"Reduce Debt-to-Income Ratio">> ELSE <<>>)
         \o (IF Get(features, "LatePayments", 0) > 2
             THEN <<"Establish Perfect Payment History">> ELSE <<>>)
         \o (IF Get(features, "CreditScore", 0) < 650
             THEN <<"Improve Credit Score">> ELSE <<>>)
         \o (IF Get(features, "SocialMediaRiskScore", 0) > 6
             THEN <<"Digital Footprint Optimization">> ELSE <<>>)
    ELSE <<>>

\* micro units rounded to 4 decimals (1e-4 units), round half to even.
RoundMicro4(m) ==
    LET q == m \div 100
        r == m % 100
    IN  IF r > 50 THEN q + 1
        ELSE IF r < 50 THEN q
        ELSE IF q % 2 = 0 THEN q ELSE q + 1

\* The dict calculate_comprehensive_assessment returns.
CalculateComprehensiveAssessment(features) ==
    LET risk_probability == RiskProbability(features)
        risk_level == RiskLevelOf(risk_probability)
        segment == SegmentOf(features, risk_level)
    IN  [risk_level |-> risk_level,
         risk_probability |-> Round4(risk_probability),
         traditional_score |-> Get(features, "CreditScore", 0),
         alternative_data_impact |-> RoundMicro4(AltDataImpact(features)),
         customer_segment |-> segment,
         lifetime_value_estimate |-> LifetimeValue(features, segment),
         risk_adjusted_pricing |-> RiskAdjustedPricing(risk_level),
         upsell_products |-> IdentifyUpsellOpportunities(features, segment, risk_level),
         investment_readiness_score |-> CalculateInvestmentReadiness(features) * 10]

----------------------------------------------------------------------------
(* Linear scorer: the body of predict_credit_risk                          *)

\* The number a feature value stands for is value / FeatureScale (see the
\* units at the top); a bool multiplies as 0 or 1.
FeatureScale(k) ==
    CASE k = "DebtToIncome" -> 100
      [] k \in {"SocialMediaRiskScore", "DeviceUsageScore"} -> 10
      [] OTHER -> 1

FeatureNumber(features, k) ==
    IF k = "HasInvestmentAccount"
    THEN (IF features[k] THEN 1 ELSE 0)
    ELSE features[k]

\* sum of coefficients[feature] * value over the features named in keys.
RECURSIVE WeightedSum(_, _, _)
WeightedSum(table, features, keys) ==
    IF keys = {} THEN 0
    ELSE LET k == CHOOSE x \in keys : TRUE
         IN  (table[k] * FeatureNumber(features, k)) \div FeatureScale(k)
             + WeightedSum(table, features, keys \ {k})

\* linear_combo = coefficients.get('Intercept', 0)
\*               + sum(coefficients[f] * v for f, v in features if f in coefficients)
LinearLogit(table, features) ==
    Get(table, "Intercept", 0)
    + WeightedSum(table, features, DOMAIN features \cap DOMAIN table)

\* Mutant of PredictionOf: the comparison made inclusive.
PredictionOfInclusive(p) == IF p >= FixOne \div 2 THEN "high_risk" ELSE "low_risk"

\* "high_risk" if risk_probability > 0.5 else "low_risk"
PredictionOf(p) == IF p > FixOne \div 2 THEN "high_risk" ELSE "low_risk"

----------------------------------------------------------------------------
(* Model artifacts (the files the loaders read)                            *)

EmptyTable == <<>>

\* _load_fallback_model
FallbackTable == [Intercept |-> 0, Fallback |-> 1000000]
FallbackMetadata == [model_name |-> "Fallback Model"]

\* A trained table as SAS Model Studio exports it.
TrainedTable ==
    [Intercept |-> 100000, CreditScore |-> -2000, DebtToIncome |-> 1500000,
     Income |-> -10, LatePayments |-> 300000]

\* model_coefficients.json as load_sas_model finds it:
\*   absent    : no candidate path holds both files
\*   malformed : json.load raises, or the document is not an object
\*   object    : a JSON object, with or without a "coefficients" entry
CoefficientFiles ==
    {[kind |-> "absent"], [kind |-> "malformed"],
     [kind |-> "object", data |-> <<>>],
     [kind |-> "object", data |-> [coefficients |-> EmptyTable]],
     [kind |-> "object", data |-> [coefficients |-> TrainedTable]]}

\* deployment_config.json: malformed, or a JSON object.
MetadataFiles ==
    {[kind |-> "malformed"],
     [kind |-> "object",
      data |-> [model_name |-> "thakral_credit_risk", model_version |-> "2.0.0"]],
     [kind |-> "object", data |-> [model_name |-> "Fallback Model"]],
     [kind |-> "object", data |-> [model_version |-> "2.0.0"]]}

\* Text.  A line of a text file is a sequence of tokens: a word, the text of
\* a number (its value in micro units), a comma, a colon or a space.
Word(w) == [t |-> "word", s |-> w]
Number(v) == [t |-> "number", v |-> v]
Comma == [t |-> "comma"]
Colon == [t |-> "colon"]
Space == [t |-> "space"]

\* model_coefficients.txt as the draft ModelLoader reads it: absent, or lines.
\* A line is a "name,value" pair, blank, or text without a comma.
PairLine(name, value) == <<Word(name), Comma, Number(value)>>
BlankLine == <<>>
BadLine == <<Word("coefficients")>>

DraftCoefficientFiles ==
    {[kind |-> "absent"],
     [kind |-> "lines", lines |-> <<>>],
     [kind |-> "lines", lines |-> <<BlankLine>>],
     [kind |-> "lines",
      lines |-> <<PairLine("Intercept", 100000), PairLine("CreditScore", -2000)>>],
     [kind |-> "lines",
      lines |-> <<PairLine("Intercept", -1500000), BlankLine,
                  PairLine("DebtToIncome", 4000000), PairLine("Age", -10000)>>],
     [kind |-> "lines",
      lines |-> <<PairLine("Intercept", 1400100), PairLine("CreditScore", -2000)>>],
     [kind |-> "lines",
      lines |-> <<PairLine("Intercept", -1500000), PairLine("LoanAmount", 100),
                  PairLine("Income", -200)>>],
     [kind |-> "lines", lines |-> <<PairLine("Intercept", 100000), BadLine>>]}

\* str.strip(): the line without its leading and trailing spaces.
RECURSIVE Strip(_)
Strip(line) ==
    IF line = <<>> THEN line
    ELSE IF Head(line).t = "space" THEN Strip(Tail(line))
    ELSE IF line[Len(line)].t = "space" THEN Strip(SubSeq(line, 1, Len(line) - 1))
    ELSE line

\* str.split(','): the parts between the commas.
RECURSIVE SplitComma(_, _)
SplitComma(line, part) ==
    IF line = <<>> THEN <<part>>
    ELSE IF Head(line).t = "comma" THEN <<part>> \o SplitComma(Tail(line), <<>>)
    ELSE SplitComma(Tail(line), Append(part, Head(line)))

\* float(text) succeeds on the text of one number, spaces around it allowed.
IsFloat(part) == Len(Strip(part)) = 1 /\ Strip(part)[1].t = "number"
FloatOf(part) == Strip(part)[1].v

\* The characters of a part, as the dict key they make.
RECURSIVE TextOf(_)
TextOf(part) ==
    IF part = <<>> THEN ""
    ELSE (CASE Head(part).t = "word" -> Head(part).s
            [] Head(part).t = "number" -> ToString(Head(part).v)
            [] Head(part).t = "comma" -> ","
            [] Head(part).t = "colon" -> ":"
            [] Head(part).t = "space" -> " ")
         \o TextOf(Tail(part))

\* The for loop over the lines: the table, or failed when a line raises
\* (var, coeff = ... needs exactly two parts, float(coeff) a number).
RECURSIVE ParseCoefficientLines(_, _)
ParseCoefficientLines(lines, table) ==
    IF lines = <<>> THEN [failed |-> FALSE, table |-> table]
    ELSE LET stripped == Strip(Head(lines))
             parts == SplitComma(stripped, <<>>)
         IN  IF stripped = <<>> THEN ParseCoefficientLines(Tail(lines), table)
             ELSE IF Len(parts) # 2 \/ ~IsFloat(parts[2])
             THEN [failed |-> TRUE, table |-> table]
             ELSE LET var == TextOf(parts[1])
                  IN  ParseCoefficientLines(
                          Tail(lines),
                          [k \in DOMAIN table \cup {var} |->
                              IF k = var THEN FloatOf(parts[2]) ELSE table[k]])

----------------------------------------------------------------------------
(* SASModelHandler: the writers of the sync script                         *)

\* The order in which a coefficients object lists its entries.
CoefficientOrder ==
    <<"Intercept", "Income", "Age", "LoanAmount", "CreditScore", "DebtToIncome",
      "EmploymentYears", "LoanTerm", "LatePayments">>

\* f"{feature}: {coeff}\n" for each item of the coefficients object.
RECURSIVE FeatureLines(_, _)
FeatureLines(table, names) ==
    IF names = <<>> THEN <<>>
    ELSE (IF Head(names) \in DOMAIN table
          THEN <<<<Word(Head(names)), Colon, Space, Number(table[Head(names)])>>>>
          ELSE <<>>)
         \o FeatureLines(table, Tail(names))

\* f"{label}: {value}" where the value is a number when the document gives
\* one and the default text otherwise.
LabelledLine(label, data, key, default) ==
    <<Word(label), Colon, Space,
      IF key \in DOMAIN data THEN Number(data[key]) ELSE Word(default)>>

\* convert_coefficients_to_text: the lines written to model_coefficients.txt
\* for the JSON object data.
ConvertCoefficientsToText(data) ==
    LET perf == Get(data, "performance", <<>>)
    IN  << <<Word("# Thakral One Credit Risk Model Coefficients")>>,
           <<Word("# Generated"), Colon, Space,
             Word(Get(data, "created_timestamp", "Unknown"))>>,
           <<Word("# Model Type"), Colon, Space,
             Word(Get(data, "model_type", "logistic_regression"))>>,
           <<>>,
           <<Word("INTERCEPT"), Colon, Space, Number(Get(data, "intercept", 0))>>,
           <<>> >>
        \o FeatureLines(Get(data, "coefficients", <<>>), CoefficientOrder)
        \o << <<>>,
              <<Word("# Performance Metrics")>>,
              LabelledLine("AUC", perf, "auc", "N/A"),
              LabelledLine("Accuracy", perf, "accuracy", "N/A"),
              LabelledLine("Precision", perf, "precision", "N/A"),
              LabelledLine("Recall", perf, "recall", "N/A") >>

\* convert_deployment_to_metadata: the object written to model_metadata.json
\* for the deployment config (without created_at, which is the clock's).
ConvertDeploymentToMetadata(config) ==
    [name |-> Get(config, "model_name", "thakral_credit_risk"),
     version |-> Get(config, "version", "1.0.0"),
     type |-> "classification",
     features |-> DOMAIN Get(config, "input_schema", <<>>),
     target |-> "risk_prediction",
     sla_requirements |-> Get(config, "sla_requirements", <<>>),
     source |-> "SAS Model Studio",
     deployment_ready |-> TRUE]

\* update_model_metadata: metadata.update({...}) (without last_updated).
UpdateModelMetadata(meta) ==
    [deployment_trigger |-> "SAS_MODEL_STUDIO",
     pipeline_version |-> "2.0.0",
     demo_mode |-> TRUE,
     thakral_one_signature |-> "Accelerating SAS models to production"] @@ meta

\* model_coefficients.json in the SAS output directory: absent, or a JSON
\* object in either documented layout.
SasCoefficientOutputs ==
    {[kind |-> "absent"],
     [kind |-> "object", data |-> <<>>],
     [kind |-> "object",
      data |-> [coefficients |-> [Intercept |-> 100000, CreditScore |-> -2000]]],
     [kind |-> "object",
      data |-> [intercept |-> 100000, coefficients |-> [CreditScore |-> -2000]]]}

\* deployment_config.json in the SAS output directory.
SasDeploymentConfigs ==
    {[kind |-> "absent"],
     [kind |-> "object",
      data |-> [model_name |-> "thakral_credit_risk", version |-> "2.0.0"]],
     [kind |-> "object",
      data |-> [model_name |-> "thakral_credit_risk", model_version |-> "2.0.0"]]}

\* The model_artifact directory of the draft pipeline's repository.
ArtifactDirectories ==
    [coefficients : DraftCoefficientFiles,
     metadata : MetadataFiles \cup {[kind |-> "absent"]},
     synced : {FALSE},
     sas_output : {<<>>}]

\* The pipeline app reads its own files (CoefficientFiles, MetadataFiles).
NoArtifacts ==
    [coefficients |-> [kind |-> "absent"], metadata |-> [kind |-> "absent"],
     synced |-> FALSE, sas_output |-> <<>>]

----------------------------------------------------------------------------
(* Request bodies the clients send                                         *)

\* Bounds of the payment-behaviour sweep and of the omission patterns.
MaxLatePayments == 3
MaxOverdraftEvents == 2
MaxOmitted == 1

IncomeValues == {0, 35000, 74000, 150000}
AgeValues == {24, 28, 50, 70}
LoanValues == {10000, 250000}
CreditValues == {580, 630, 700, 780}
DebtValues == {25, 42, 65}
EmploymentValues == {0, 8}

RequiredGrid ==
    [Income : IncomeValues, Age : AgeValues, LoanAmount : LoanValues,
     CreditScore : CreditValues, DebtToIncome : DebtValues,
     EmploymentYears : EmploymentValues, LoanTerm : {30}]

\* The required fields of the scenarios of demo_runner.py and test_model.py.
StandardCustomer ==
    [Income |-> 75000, Age |-> 35, LoanAmount |-> 200000, CreditScore |-> 750,
     DebtToIncome |-> 25, EmploymentYears |-> 8, LoanTerm |-> 30]
HighRiskCustomer ==
    [Income |-> 35000, Age |-> 24, LoanAmount |-> 250000, CreditScore |-> 580,
     DebtToIncome |-> 65, EmploymentYears |-> 2, LoanTerm |-> 30]
PremiumCustomer ==
    [Income |-> 150000, Age |-> 42, LoanAmount |-> 500000, CreditScore |-> 780,
     DebtToIncome |-> 15, EmploymentYears |-> 15, LoanTerm |-> 30]
ZeroCustomer ==
    [Income |-> 0, Age |-> 18, LoanAmount |-> 0, CreditScore |-> 300,
     DebtToIncome |-> 0, EmploymentYears |-> 0, LoanTerm |-> 10]
TestHighRiskCustomer ==
    [Income |-> 25000, Age |-> 22, LoanAmount |-> 300000, CreditScore |-> 500,
     DebtToIncome |-> 80, EmploymentYears |-> 1, LoanTerm |-> 15]
\* A well-off applicant with a small loan.
LowRiskCustomer ==
    [Income |-> 120000, Age |-> 60, LoanAmount |-> 10000, CreditScore |-> 780,
     DebtToIncome |-> 15, EmploymentYears |-> 8, LoanTerm |-> 30]

Scenarios ==
    {StandardCustomer, HighRiskCustomer, PremiumCustomer, ZeroCustomer,
     TestHighRiskCustomer, LowRiskCustomer}

\* The alternative-data parts of demo_runner.py's "highrisk" and "premium"
\* scenarios, and one on the 1-5 social-media scale of the scoring formula.
HighRiskAlt ==
    [SocialMediaRiskScore |-> 8, DeviceUsageScore |-> 3, NumberOfProducts |-> 1,
     HasInvestmentAccount |-> FALSE, AccountTenure |-> 8, LatePayments |-> 4,
     OverdraftEvents |-> 6]
PremiumAlt ==
    [SocialMediaRiskScore |-> 1, DeviceUsageScore |-> 9, NumberOfProducts |-> 5,
     HasInvestmentAccount |-> TRUE, AccountTenure |-> 60, LatePayments |-> 0,
     OverdraftEvents |-> 0]
FiveScaleAlt ==
    [SocialMediaRiskScore |-> 40, DeviceUsageScore |-> 500, NumberOfProducts |-> 3,
     HasInvestmentAccount |-> FALSE, AccountTenure |-> 96, LatePayments |-> 4,
     OverdraftEvents |-> 6]

\* An investor who has fallen behind on payments.
InvestorLateAlt ==
    [SocialMediaRiskScore |-> 3, DeviceUsageScore |-> 7, NumberOfProducts |-> 4,
     HasInvestmentAccount |-> TRUE, AccountTenure |-> 24, LatePayments |-> 4,
     OverdraftEvents |-> 6]

AltProfiles == {HighRiskAlt, PremiumAlt, FiveScaleAlt, InvestorLateAlt}

\* The body with the fields of both parts.
Body(required, optional) ==
    [k \in DOMAIN required \cup DOMAIN optional |->
        IF k \in DOMAIN required THEN required[k] ELSE optional[k]]

\* f without the keys in ks.
Without(f, ks) == [k \in DOMAIN f \ ks |-> f[k]]

\* Every required grid point, the optional fields all omitted or all given.
GridRequests ==
    {Body(r, o) : r \in RequiredGrid, o \in {<<>>, HighRiskAlt, PremiumAlt}}

\* Every scenario with every profile, up to MaxOmitted of its fields omitted.
OmissionRequests ==
    {Body(r, Without(o, ks)) :
        r \in Scenarios, o \in AltProfiles,
        ks \in {x \in SUBSET OptionalNames : Cardinality(x) <= MaxOmitted}}

\* Every scenario with only the payment behaviour given.
SweepRequests ==
    {Body(r, [LatePayments |-> l, OverdraftEvents |-> d]) :
        r \in Scenarios, l \in 0..MaxLatePayments, d \in 0..MaxOverdraftEvents}
    \cup {Body(r, <<>>) : r \in Scenarios}

\* Bodies that lack one required field.
InvalidRequests == {Without(StandardCustomer, {k}) : k \in RequiredNames}

Requests == GridRequests \cup OmissionRequests \cup SweepRequests \cup InvalidRequests

VARIABLES
    app,           \* which process the behaviour is of: "pipeline" or "draft"
    loader_pc,     \* position of the module-level loader: "start",
                   \* "coefficients_loaded", "done", "crashed"
    coefficients,  \* sas_model.coefficients / model_loader.coefficients
    metadata,      \* sas_model.metadata / model_loader.metadata
    model_ready,   \* sas_model.model_ready
    config,        \* history: "unread", "valid" or "invalid", what the loader
                   \* found the artifact files to be
    fallback_loaded, \* history: _load_fallback_model has run
    pc,            \* the server: "idle" or "responded"
    request,       \* the request body being answered (NoRequest when idle)
    response,      \* the response of the handler (NoResponse when idle)
    artifacts,     \* the model_artifact directory the sync script writes and
                   \* the draft ModelLoader reads, with what it was synced from
    calls          \* the predict and assess calls in flight on each worker
                   \* thread, step by step (all idle where handlers run whole)

\* The traffic-light controller of visual_demo/raspberry_pi_controller.py.
VARIABLES
    gpio,          \* the level of each output pin (TRUE is GPIO.HIGH)
    monitoring,    \* TrafficLightController.monitoring
    demo_start_time, \* TrafficLightController.demo_start_time
    threads,       \* the main thread (start_demo, run_manual_timer) and the
                   \* monitor thread (monitor_pipeline): position, the GPIO
                   \* writes and short sleeps still to do, loop index, and
                   \* the time the current time.sleep ends
    pipeline_run,  \* the latest workflow run GitHub reports
    now,           \* the clock, in demo time units
    celebrations   \* history: each success_celebration begun, with the
                   \* thread that ran it and the run status at that moment

\* The sync service of sas_integration/git_sync_automation.py.
VARIABLES
    processing,    \* SASModelHandler.processing
    event_queue,   \* the .flag file events the observer has not dispatched
    callbacks      \* the on_modified calls dispatched so far, each with its
                   \* position

controller_vars ==
    <<gpio, monitoring, demo_start_time, threads, pipeline_run, now, celebrations>>
watcher_vars == <<processing, event_queue, callbacks>>
device_vars == <<controller_vars, watcher_vars>>

vars ==
    <<app, loader_pc, coefficients, metadata, model_ready, config,
      fallback_loaded, pc, request, response, calls, artifacts,
      controller_vars, watcher_vars>>

loader_vars == <<loader_pc, coefficients, metadata, model_ready, config, fallback_loaded>>
server_vars == <<pc, request, response, calls>>

NoRequest == [none |-> TRUE]
NoResponse == [none |-> TRUE]

\* The worker threads that run calls side by side.
Workers == {"w1", "w2"}
IdleCall == [pc |-> "idle"]

\* GPIO pin configuration.
RED_LED == 18
YELLOW_LED == 23
GREEN_LED == 24
BUZZER == 25
Pins == {RED_LED, YELLOW_LED, GREEN_LED, BUZZER}
Leds == {RED_LED, YELLOW_LED, GREEN_LED}

HIGH == TRUE
LOW == FALSE

\* One GPIO.output call, and one sleep of less than a second.
Output(pin, level) == [op |-> "output", pin |-> pin, level |-> level]
ShortSleep == [op |-> "sleep"]

\* A thread at rest at position p.
ThreadAt(p) == [pc |-> p, todo |-> <<>>, i |-> 0, wake |-> 0]

\* TrafficLightController.__init__ has run: setup_gpio has lit the red
\* light (the buzzer pin is taken LOW, as after a cleanup), the object is
\* waiting for the 's' command and no monitor thread exists.
ControllerInit ==
    /\ gpio = [p \in Pins |-> p = RED_LED]
    /\ monitoring = FALSE
    /\ demo_start_time = 0
    /\ threads = [main |-> ThreadAt("ready"), monitor |-> ThreadAt("unstarted")]
    /\ pipeline_run = "none"
    /\ now = 0
    /\ celebrations = <<>>

\* SASModelHandler.__init__ has run and the observer is started.
HandlerInit ==
    /\ processing = FALSE
    /\ event_queue = <<>>
    /\ callbacks = <<>>

\* SASModelLoader.__init__ / ModelLoader.__init__ before the load call.
Init ==
    /\ ControllerInit
    /\ HandlerInit
    /\ \/ app = "pipeline" /\ artifacts = NoArtifacts
       \/ app = "draft" /\ artifacts \in ArtifactDirectories
    /\ loader_pc = "start"
    /\ coefficients = EmptyTable
    /\ metadata = <<>>
    /\ model_ready = FALSE
    /\ config = "unread"
    /\ fallback_loaded = FALSE
    /\ pc = "idle"
    /\ request = NoRequest
    /\ response = NoResponse
    /\ calls = [w \in Workers |-> IdleCall]

----------------------------------------------------------------------------
(* SASModelLoader.load_sas_model (pipeline app)                            *)

\* _load_fallback_model, reached from the "not found" branch or the except
\* clause.
LoadFallbackModel ==
    /\ coefficients' = FallbackTable
    /\ metadata' = FallbackMetadata
    /\ model_ready' = TRUE
    /\ fallback_loaded' = TRUE
    /\ config' = "invalid"
    /\ loader_pc' = "done"

\* A coefficient entry the scorer can use: present and not empty.
UsableCoefficients(data) ==
    "coefficients" \in DOMAIN data /\ data["coefficients"] # EmptyTable

\* Lines 65-90: the path search, json.load of the coefficient file and the
\* assignment of self.coefficients.
LoadCoefficients ==
    /\ app = "pipeline"
    /\ loader_pc = "start"
    /\ \E file \in CoefficientFiles :
          IF file.kind \in {"absent", "malformed"}
          THEN LoadFallbackModel
          ELSE /\ coefficients' = Get(file.data, "coefficients", EmptyTable)
               /\ config' = IF UsableCoefficients(file.data) THEN "valid" ELSE "invalid"
               /\ loader_pc' = "coefficients_loaded"
               /\ UNCHANGED <<metadata, model_ready, fallback_loaded>>
    /\ UNCHANGED <<app, device_vars, artifacts, server_vars>>

\* Lines 92-100: json.load of the metadata file, self.metadata, and
\* self.model_ready = len(self.coefficients) > 0.
LoadMetadata ==
    /\ app = "pipeline"
    /\ loader_pc = "coefficients_loaded"
    /\ \E file \in MetadataFiles :
          IF file.kind = "malformed"
          THEN LoadFallbackModel
          ELSE /\ metadata' = file.data
               /\ model_ready' = (Cardinality(DOMAIN coefficients) > 0)
               /\ loader_pc' = "done"
               /\ UNCHANGED <<coefficients, config, fallback_loaded>>
    /\ UNCHANGED <<app, device_vars, artifacts, server_vars>>

----------------------------------------------------------------------------
(* The handlers of the pipeline app                                        *)

\* Mutant of Serving: the handlers do not wait for the load to end.
ServingEarly(a) == app = a /\ pc = "idle"

Serving(a) == app = a /\ loader_pc = "done" /\ pc = "idle"

\* Mutant of Respond: a handler that marks the model not ready as it answers.
RespondResetting(endpoint, raw, status, body) ==
    /\ pc' = "responded"
    /\ request' = raw
    /\ response' = [endpoint |-> endpoint, status |-> status, body |-> body]
    /\ model_ready' = FALSE
    /\ UNCHANGED <<app, device_vars, artifacts, loader_pc, coefficients, metadata, config, fallback_loaded, calls>>

Respond(endpoint, raw, status, body) ==
    /\ pc' = "responded"
    /\ request' = raw
    /\ response' = [endpoint |-> endpoint, status |-> status, body |-> body]
    /\ UNCHANGED <<app, device_vars, artifacts, loader_vars, calls>>

\* The body of GET /health (without its timestamp).
HealthBody(ready, meta) ==
    [status |-> "healthy", model_ready |-> ready,
     model_source |-> Get(meta, "model_name", "Unknown")]

HealthCheck ==
    /\ Serving("pipeline")
    /\ Respond("health", NoRequest, 200, HealthBody(model_ready, metadata))

GetModelInfo ==
    /\ Serving("pipeline")
    /\ IF ~model_ready
       THEN Respond("model_info", NoRequest, 404, [detail |-> "Model not loaded"])
       ELSE Respond("model_info", NoRequest, 200,
                    [metadata |-> metadata,
                     count |-> Cardinality(DOMAIN coefficients),
                     names |-> DOMAIN coefficients])

\* The CreditRiskResponse of POST /predict.
PredictBody(table, meta, features) ==
    LET risk_probability == Sigmoid(LinearLogit(table, features))
    IN  [prediction |-> PredictionOf(risk_probability),
         risk_probability |-> risk_probability,
         model_version |-> Get(meta, "model_version", "N/A"),
         model_name |-> Get(meta, "model_name", "N/A")]

PredictCreditRisk ==
    /\ Serving("pipeline")
    /\ \E raw \in Requests :
          IF ~ValidRequest(raw)
          THEN Respond("predict", raw, 422, [detail |-> "validation error"])
          ELSE IF ~model_ready
          THEN Respond("predict", raw, 503, [detail |-> "Model not ready for predictions"])
          ELSE Respond("predict", raw, 200,
                       PredictBody(coefficients, metadata, RequestDict(raw)))

RegulatoryFlags(features) ==
    (IF Get(features, "DebtToIncome", 0) > 43
     THEN <<"High DTI - QM rule consideration">> ELSE <<>>)
    \o (IF Get(features, "Age", 0) < 21
        THEN <<"Young borrower - additional verification required">> ELSE <<>>)

\* Mutant of ConfidenceInterval: the lower bound not clamped at 0.
ConfidenceIntervalUnclamped(p) ==
    [lower_bound |-> p - 1000, upper_bound |-> Min(10000, p + 1000)]

\* max(0, p - 0.1) and min(1, p + 0.1), 1e-4 units.
ConfidenceInterval(p) ==
    [lower_bound |-> Max(0, p - 1000), upper_bound |-> Min(10000, p + 1000)]

\* The ComprehensiveAssessmentResponse (without its timestamp).
AssessmentBody(meta, features) ==
    LET assessment == CalculateComprehensiveAssessment(features)
    IN  [risk_level |-> assessment.risk_level,
         risk_probability |-> assessment.risk_probability,
         traditional_score |-> assessment.traditional_score,
         alternative_data_impact |-> assessment.alternative_data_impact,
         customer_segment |-> assessment.customer_segment,
         lifetime_value_estimate |-> assessment.lifetime_value_estimate,
         risk_adjusted_pricing |-> assessment.risk_adjusted_pricing,
         model_version |-> Get(meta, "model_version", "3.0.0"),
         regulatory_flags |-> RegulatoryFlags(features),
         confidence_interval |-> ConfidenceInterval(assessment.risk_probability),
         upsell_products |-> assessment.upsell_products,
         investment_readiness_score |-> assessment.investment_readiness_score]

ComprehensiveCreditAssessment ==
    /\ Serving("pipeline")
    /\ \E raw \in Requests :
          IF ~ValidRequest(raw)
          THEN Respond("assess", raw, 422, [detail |-> "validation error"])
          ELSE IF ~model_ready
          THEN Respond("assess", raw, 503, [detail |-> "SAS model not ready"])
          ELSE IF EngineRaises(RequestDict(raw))
          THEN Respond("assess", raw, 500, [detail |-> "Internal Server Error"])
          ELSE Respond("assess", raw, 200, AssessmentBody(metadata, RequestDict(raw)))

\* The CustomerAdvisoryResponse (without customer_id and reapplication_date,
\* which depend on the process's hash seed and on the clock).
AdvisoryBody(features) ==
    LET assessment == CalculateComprehensiveAssessment(features)
        high == assessment.risk_level = "high_risk"
    IN  [current_risk_level |-> assessment.risk_level,
         improvement_plan |-> GenerateImprovementPlan(features, assessment.risk_level),
         target_timeline |-> IF high THEN "4-6 months" ELSE "2-3 months",
         expected_improvement |-> IF high THEN 25 ELSE 15,
         reapplication_days |-> IF high THEN 120 ELSE 90]

GenerateCustomerAdvisory ==
    /\ Serving("pipeline")
    /\ \E raw \in Requests :
          IF ~ValidRequest(raw)
          THEN Respond("advisory", raw, 422, [detail |-> "validation error"])
          ELSE IF ~model_ready
          THEN Respond("advisory", raw, 503, [detail |-> "SAS model not ready"])
          ELSE IF EngineRaises(RequestDict(raw))
          THEN Respond("advisory", raw, 500, [detail |-> "Internal Server Error"])
          ELSE Respond("advisory", raw, 200, AdvisoryBody(RequestDict(raw)))

\* The PortfolioInsightsResponse of GET /portfolio/insights: simulated
\* portfolio figures, the same for every call (shares in hundredths).
PortfolioBody ==
    [portfolio_health |-> [total_customers |-> 15427, active_loans |-> 8934],
     risk_distribution |-> [low_risk |-> 45, medium_risk |-> 35, high_risk |-> 20],
     compliance_status |-> [regulatory_compliance |-> "Green",
                            model_governance |-> "Approved"],
     growth_opportunities |->
        <<"Emerging Market - Thin Files", "Premium Investment Upsell",
          "Digital-Native Millennials">>]

GetPortfolioInsights ==
    /\ Serving("pipeline")
    /\ IF ~model_ready
       THEN Respond("portfolio", NoRequest, 503, [detail |-> "SAS model not ready"])
       ELSE Respond("portfolio", NoRequest, 200, PortfolioBody)

\* ContactRequest bodies: name (min_length 1) and email are required.
ContactRequests ==
    {[name |-> "Ada", email |-> "ada@example.com", interest |-> "demo-request"],
     [name |-> "Ada", email |-> "ada@example.com"],
     [name |-> "", email |-> "ada@example.com"],
     [name |-> "Ada"]}

ValidContact(contact) ==
    /\ {"name", "email"} \subseteq DOMAIN contact
    /\ contact.name # ""

RecipientEmails ==
    <<"hussein.srour@thakralone.com", "bikram@thakral.com",
      "santie.heydenrych@thakralone.com">>

\* POST /contact/send: the e-mails are simulated by log lines.
SendContactEmail ==
    /\ Serving("pipeline")
    /\ \E contact \in ContactRequests :
          IF ~ValidContact(contact)
          THEN Respond("contact", contact, 422, [detail |-> "validation error"])
          ELSE Respond("contact", contact, 200,
                       [success |-> TRUE, emails_sent |-> RecipientEmails])

\* BusinessAssessmentRequest bodies (the fields the handler computes with).
\* A rating is the text of a number, or text int() rejects (0 here).
Ratings == {0, 1, 3, 5}

BusinessAssessments ==
    [strategicPriority : Ratings, businessImpact : Ratings,
     technicalFeasibility : {2, 5},
     dataReadiness : {"limited-data", "good-data"},
     aiMaturity : {"basic", "advanced"},
     sasFit : {"perfect-fit", "comparison", "good-fit"}]

\* priority_score * 3
PriorityTotal(assessment) ==
    assessment.strategicPriority + assessment.businessImpact
    + assessment.technicalFeasibility

BusinessRecommendations(assessment) ==
    (IF PriorityTotal(assessment) >= 12
     THEN <<"High-priority use case - Schedule immediate strategic consultation",
            "Fast-track SAS solution architecture workshop",
            "Consider proof-of-concept development">>
     ELSE IF PriorityTotal(assessment) >= 9
     THEN <<"Medium-priority use case - Plan detailed discovery session",
            "Evaluate data readiness and technical requirements",
            "Develop implementation roadmap">>
     ELSE <<"Use case needs further development",
            "Focus on strategic alignment and business case",
            "Consider data maturity and technical readiness improvements">>)
    \o (IF assessment.dataReadiness \in {"limited-data", "minimal-data"}
        THEN <<"Prioritize data strategy and governance initiatives">> ELSE <<>>)
    \o (IF assessment.aiMaturity \in {"basic", "starting", "greenfield"}
        THEN <<"Consider SAS analytics maturity assessment">> ELSE <<>>)
    \o (IF assessment.sasFit = "perfect-fit"
        THEN <<"Excellent SAS solution fit - accelerate engagement">>
        ELSE IF assessment.sasFit = "comparison"
        THEN <<"Schedule competitive differentiation session">> ELSE <<>>)

\* POST /assessment/business: int() of a rating that is not a number raises,
\* and the except clause answers 500.
SubmitBusinessAssessment ==
    /\ Serving("pipeline")
    /\ \E assessment \in BusinessAssessments :
          IF 0 \in {assessment.strategicPriority, assessment.businessImpact}
          THEN Respond("business", assessment, 500,
                       [detail |-> "Failed to process business assessment"])
          ELSE Respond("business", assessment, 200,
                       [success |-> TRUE,
                        priority_total |-> PriorityTotal(assessment),
                        recommendations |-> BusinessRecommendations(assessment)])

----------------------------------------------------------------------------
(* The draft app: ModelLoader and predict_credit_risk                      *)

\* ModelLoader.load_model_artifacts.  Any exception is logged and raised
\* again, which ends the import of the module and with it the process; the
\* attributes keep what was assigned before the exception.
DraftLoadModelArtifacts ==
    /\ app = "draft"
    /\ loader_pc = "start"
    /\ LET cfile == artifacts.coefficients
           mfile == artifacts.metadata
       IN LET parsed == IF cfile.kind = "absent"
                        THEN [failed |-> TRUE, table |-> coefficients]
                        ELSE ParseCoefficientLines(cfile.lines, coefficients)
              meta_ok == mfile.kind = "object" /\ "model_name" \in DOMAIN mfile.data
          IN  /\ coefficients' = parsed.table
              /\ metadata' = IF ~parsed.failed /\ mfile.kind = "object"
                             THEN mfile.data ELSE metadata
              /\ loader_pc' = IF ~parsed.failed /\ meta_ok THEN "done" ELSE "crashed"
              /\ config' = IF ~parsed.failed /\ meta_ok /\ parsed.table # EmptyTable
                           THEN "valid" ELSE "invalid"
    /\ UNCHANGED <<app, device_vars, artifacts, model_ready, fallback_loaded, server_vars>>

\* sync_model_artifacts, up to the git commit: each file the SAS output holds
\* is converted into the model_artifact directory, then
\* update_model_metadata rewrites model_metadata.json (an unreadable one
\* stays as it is, a missing one starts from {}).  It runs on the checkout
\* before the service starts from it.
SyncModelArtifacts ==
    /\ app = "draft"
    /\ loader_pc = "start"
    /\ ~artifacts.synced
    /\ \E cdoc \in SasCoefficientOutputs, kdoc \in SasDeploymentConfigs :
          LET cfile == IF cdoc.kind = "object"
                       THEN [kind |-> "lines",
                             lines |-> ConvertCoefficientsToText(cdoc.data)]
                       ELSE artifacts.coefficients
              converted == IF kdoc.kind = "object"
                           THEN [kind |-> "object",
                                 data |-> ConvertDeploymentToMetadata(kdoc.data)]
                           ELSE artifacts.metadata
              mfile == CASE converted.kind = "object" ->
                              [kind |-> "object",
                               data |-> UpdateModelMetadata(converted.data)]
                         [] converted.kind = "absent" ->
                              [kind |-> "object", data |-> UpdateModelMetadata(<<>>)]
                         [] OTHER -> converted
          IN  artifacts' = [coefficients |-> cfile, metadata |-> mfile,
                            synced |-> TRUE,
                            sas_output |-> [coefficients |-> cdoc, config |-> kdoc]]
    /\ UNCHANGED <<app, device_vars, loader_vars, server_vars>>

\* The dict predict_credit_risk returns (without its timestamp); probability
\* is round(p, 4) in 1e-4 units, risk_score is round(p * 100, 2) in 1e-2 units.
\* Mutant of DraftPredictBody: the risk score scaled to a percentage twice.
DraftPredictBodyPercent(table, meta, features) ==
    LET probability == Sigmoid(LinearLogit(table, features))
    IN  [prediction |-> PredictionOf(probability),
         probability |-> Round4(probability),
         risk_score |-> Round4(probability) * 100,
         model_version |-> Get(meta, "model_version", "1.0.0")]

DraftPredictBody(table, meta, features) ==
    LET probability == Sigmoid(LinearLogit(table, features))
    IN  [prediction |-> PredictionOf(probability),
         probability |-> Round4(probability),
         risk_score |-> Round4(probability),
         model_version |-> Get(meta, "model_version", "1.0.0")]

DraftRequests == {raw \in Requests : DOMAIN raw \subseteq RequiredNames}

\* POST /predict of the draft app.
DraftPredict ==
    /\ Serving("draft")
    /\ \E raw \in DraftRequests :
          IF ~ValidRequest(raw)
          THEN Respond("predict", raw, 422, [detail |-> "validation error"])
          ELSE Respond("predict", raw, 200,
                       DraftPredictBody(coefficients, metadata, DraftRequestDict(raw)))

\* The bodies of test_api.py's batch, and one that lacks a required field.
BatchRequests ==
    {StandardCustomer, TestHighRiskCustomer, Without(StandardCustomer, {"Age"})}

\* The longest batch sent.
MaxBatch == 2

Batches == UNION {[1..n -> BatchRequests] : n \in 0..MaxBatch}

\* Mutant of BatchResults: each result put in front of the earlier ones.
RECURSIVE BatchResultsReversed(_, _)
BatchResultsReversed(requests, results) ==
    IF requests = <<>> THEN results
    ELSE BatchResultsReversed(
             Tail(requests),
             <<DraftPredictBody(coefficients, metadata,
                                DraftRequestDict(Head(requests)))>> \o results)

\* The for loop of predict_batch: results.append(predict_credit_risk(...)).
RECURSIVE BatchResults(_, _)
BatchResults(requests, results) ==
    IF requests = <<>> THEN results
    ELSE BatchResults(
             Tail(requests),
             Append(results,
                    DraftPredictBody(coefficients, metadata,
                                     DraftRequestDict(Head(requests)))))

\* POST /predict/batch of the draft app.
DraftPredictBatch ==
    /\ Serving("draft")
    /\ \E batch \in Batches :
          IF \E i \in DOMAIN batch : ~ValidRequest(batch[i])
          THEN Respond("predict_batch", batch, 422, [detail |-> "validation error"])
          ELSE Respond("predict_batch", batch, 200,
                       [predictions |-> BatchResults(batch, <<>>)])

\* GET /health of the draft app.
DraftHealthCheck ==
    /\ Serving("draft")
    /\ Respond("health", NoRequest, 200, [status |-> "healthy"])

\* The response is sent; the server waits for the next request.
SendResponse ==
    /\ pc = "responded"
    /\ pc' = "idle"
    /\ request' = NoRequest
    /\ response' = NoResponse
    /\ UNCHANGED <<app, device_vars, artifacts, loader_vars, calls>>

Next ==
    \/ LoadCoefficients
    \/ LoadMetadata
    \/ HealthCheck
    \/ GetModelInfo
    \/ PredictCreditRisk
    \/ ComprehensiveCreditAssessment
    \/ GenerateCustomerAdvisory
    \/ GetPortfolioInsights
    \/ SendContactEmail
    \/ SubmitBusinessAssessment
    \/ SyncModelArtifacts
    \/ DraftLoadModelArtifacts
    \/ DraftPredict
    \/ DraftPredictBatch
    \/ DraftHealthCheck
    \/ SendResponse

Spec == Init /\ [][Next]_vars

----------------------------------------------------------------------------
(* predict and assess calls running side by side on worker threads, each   *)
(* handler taken one read of the shared loader state at a time             *)

\* The bodies the concurrent clients send.
ConcurrentRequests ==
    {Body(r, o) : r \in {StandardCustomer, HighRiskCustomer, LowRiskCustomer},
                  o \in {<<>>, HighRiskAlt}}

SetCall(w, call) ==
    /\ calls' = [calls EXCEPT ![w] = call]
    /\ UNCHANGED <<app, device_vars, artifacts, loader_vars, pc, request, response>>

\* The request is parsed into a CreditRiskRequest and the handler entered.
CallStart(w) ==
    /\ app = "pipeline"
    /\ loader_pc = "done"
    /\ calls[w].pc = "idle"
    /\ \E endpoint \in {"predict", "assess"}, raw \in ConcurrentRequests :
          SetCall(w, [pc |-> "gate", endpoint |-> endpoint, request |-> raw])

\* if not sas_model.model_ready: raise HTTPException(status_code=503, ...)
CallGate(w) ==
    /\ calls[w].pc = "gate"
    /\ IF ~model_ready
       THEN SetCall(w, [calls[w] EXCEPT !.pc = "returned"]
                       @@ [status |-> 503, body |-> [detail |-> "not ready"]])
       ELSE SetCall(w, [calls[w] EXCEPT !.pc = "score"])

\* Mutant of CallScore: a scorer that leaves the fallback table behind it.
CallScoreResetting(w) ==
    /\ calls[w].pc = "score"
    /\ LET features == RequestDict(calls[w].request)
           scored ==
             IF calls[w].endpoint = "predict"
             THEN LET risk_probability == Sigmoid(LinearLogit(coefficients, features))
                  IN  [risk_probability |-> risk_probability,
                       prediction |-> PredictionOf(risk_probability)]
             ELSE CalculateComprehensiveAssessment(features)
       IN  /\ calls' = [calls EXCEPT
                          ![w] = [calls[w] EXCEPT !.pc = "build"] @@ [scored |-> scored]]
           /\ coefficients' = FallbackTable
           /\ UNCHANGED <<app, device_vars, artifacts, loader_pc, metadata, model_ready, config,
                          fallback_loaded, pc, request, response>>

\* The scoring lines: predict reads sas_model.coefficients into its local
\* risk_probability and prediction, assess calls the engine into its local
\* assessment.
CallScore(w) ==
    /\ calls[w].pc = "score"
    /\ LET features == RequestDict(calls[w].request)
           scored ==
             IF calls[w].endpoint = "predict"
             THEN LET risk_probability == Sigmoid(LinearLogit(coefficients, features))
                  IN  [risk_probability |-> risk_probability,
                       prediction |-> PredictionOf(risk_probability)]
             ELSE CalculateComprehensiveAssessment(features)
       IN  SetCall(w, [calls[w] EXCEPT !.pc = "build"] @@ [scored |-> scored])

\* The response model is built from the locals and sas_model.metadata.
CallReturn(w) ==
    /\ calls[w].pc = "build"
    /\ LET call == calls[w]
           features == RequestDict(call.request)
           body ==
             IF call.endpoint = "predict"
             THEN [prediction |-> call.scored.prediction,
                   risk_probability |-> call.scored.risk_probability,
                   model_version |-> Get(metadata, "model_version", "N/A"),
                   model_name |-> Get(metadata, "model_name", "N/A")]
             ELSE [risk_level |-> call.scored.risk_level,
                   risk_probability |-> call.scored.risk_probability,
                   traditional_score |-> call.scored.traditional_score,
                   alternative_data_impact |-> call.scored.alternative_data_impact,
                   customer_segment |-> call.scored.customer_segment,
                   lifetime_value_estimate |-> call.scored.lifetime_value_estimate,
                   risk_adjusted_pricing |-> call.scored.risk_adjusted_pricing,
                   model_version |-> Get(metadata, "model_version", "3.0.0"),
                   regulatory_flags |-> RegulatoryFlags(features),
                   confidence_interval |->
                     ConfidenceInterval(call.scored.risk_probability),
                   upsell_products |-> call.scored.upsell_products,
                   investment_readiness_score |->
                     call.scored.investment_readiness_score]
       IN  SetCall(w, [pc |-> "returned", endpoint |-> call.endpoint,
                       request |-> call.request, status |-> 200, body |-> body])

\* The response is sent; the worker is free again.
CallSend(w) ==
    /\ calls[w].pc = "returned"
    /\ SetCall(w, IdleCall)

ConcurrentInit == Init /\ app = "pipeline"

ConcurrentNext ==
    \/ LoadCoefficients
    \/ LoadMetadata
    \/ \E w \in Workers : CallStart(w)
    \/ \E w \in Workers : CallGate(w)
    \/ \E w \in Workers : CallScore(w)
    \/ \E w \in Workers : CallReturn(w)
    \/ \E w \in Workers : CallSend(w)

ConcurrentSpec == ConcurrentInit /\ [][ConcurrentNext]_vars

-----------------------------------------------------------------------------
(* The traffic-light demo: start_demo on the main thread, the monitor       *)
(* thread it starts, and the GitHub run both of them follow. Each thread    *)
(* is taken one GPIO write, one sleep and one read of self.monitoring at a  *)
(* time. time.sleep(n) ends no earlier than n units later; work between     *)
(* sleeps takes no time, a sleep of less than a second may last any time.   *)

service_vars == <<app, artifacts, loader_vars, server_vars>>

\* range(120), range(120) and range(60) of run_manual_timer, each iteration
\* one second long, and the 120 s and 240 s marks of monitor_pipeline,
\* scaled down together.
BuildSeconds == 2
TestSeconds == 2
DeploySeconds == 1

\* time.sleep(10) between two polls, on the same scale.
PollSeconds == 1

\* range(5), range(3) and range(10) of the celebration, scaled down.
CelebrationFlashes == 1
BuzzerBeeps == 1
GreenFlashes == 1

\* The clock stops here; a sleep that would end later ends here.
MaxClock == 6

RECURSIVE Repeat(_, _)
Repeat(steps, n) == IF n = 0 THEN <<>> ELSE steps \o Repeat(steps, n - 1)

\* The GPIO writes of set_light_state(state), in order.
SetLightState(state) ==
    <<Output(RED_LED, LOW), Output(YELLOW_LED, LOW), Output(GREEN_LED, LOW)>>
    \o CASE state = "red" -> <<Output(RED_LED, HIGH)>>
         [] state = "yellow" -> <<Output(YELLOW_LED, HIGH)>>
         [] state = "green" -> <<Output(GREEN_LED, HIGH)>>
         [] state = "flash_green" ->
              Repeat(<<Output(GREEN_LED, HIGH), ShortSleep,
                       Output(GREEN_LED, LOW), ShortSleep>>, GreenFlashes)
              \o <<Output(GREEN_LED, HIGH)>>
         [] OTHER -> <<>>

\* The GPIO writes of success_celebration(), in order.
SuccessCelebration ==
    Repeat(<<Output(RED_LED, HIGH), Output(YELLOW_LED, HIGH),
             Output(GREEN_LED, HIGH), ShortSleep,
             Output(RED_LED, LOW), Output(YELLOW_LED, LOW),
             Output(GREEN_LED, LOW), ShortSleep>>, CelebrationFlashes)
    \o Repeat(<<Output(BUZZER, HIGH), ShortSleep,
                Output(BUZZER, LOW), ShortSleep>>, BuzzerBeeps)
    \o SetLightState("flash_green")

\* One flash of the yellow light (deploy phase).
FlashYellow ==
    <<Output(YELLOW_LED, HIGH), ShortSleep, Output(YELLOW_LED, LOW), ShortSleep>>

ThreadNames == {"main", "monitor"}

\* The thread's current time.sleep has ended.
Awake(t) == threads[t].wake <= now \/ now = MaxClock

\* The thread is between two sequences of GPIO writes.
Ready(t) == threads[t].todo = <<>> /\ Awake(t)

\* The next GPIO write, or the end of the next short sleep, of thread t.
RunStep(t) ==
    /\ threads[t].todo # <<>>
    /\ LET step == Head(threads[t].todo)
       IN  gpio' = IF step.op = "output"
                   THEN [gpio EXCEPT ![step.pin] = step.level]
                   ELSE gpio
    /\ threads' = [threads EXCEPT ![t].todo = Tail(@)]
    /\ UNCHANGED <<monitoring, demo_start_time, pipeline_run, now, celebrations>>
    /\ UNCHANGED <<service_vars, watcher_vars>>

\* start_demo up to the call of set_light_state("red").
StartDemo ==
    /\ threads.main.pc = "ready"
    /\ demo_start_time' = now
    /\ monitoring' = TRUE
    /\ threads' = [threads EXCEPT !.main.pc = "start_monitor",
                                  !.main.todo = SetLightState("red")]
    /\ UNCHANGED <<gpio, pipeline_run, now, celebrations>>
    /\ UNCHANGED <<service_vars, watcher_vars>>

\* monitor_thread.start(), then run_manual_timer is entered.
StartMonitorThread ==
    /\ threads.main.pc = "start_monitor"
    /\ Ready("main")
    /\ threads' = [threads EXCEPT !.main.pc = "build", !.monitor.pc = "loop"]
    /\ UNCHANGED <<gpio, monitoring, demo_start_time, pipeline_run, now, celebrations>>
    /\ UNCHANGED <<service_vars, watcher_vars>>

\* One pass of a for loop of run_manual_timer: the loop is left after
\* `length` iterations for position `after`, doing `leaving` on the way;
\* otherwise the function returns if monitoring is off, and else does
\* `body` and sleeps out the second.
TimerLoop(phase, length, body, after, leaving) ==
    /\ threads.main.pc = phase
    /\ Ready("main")
    /\ threads' =
         [threads EXCEPT !.main =
            IF @.i = length
            THEN [@ EXCEPT !.pc = after, !.i = 0, !.todo = leaving]
            ELSE IF ~monitoring
            THEN [@ EXCEPT !.pc = "returned"]
            ELSE [@ EXCEPT !.i = @ + 1, !.todo = body, !.wake = now + 1]]
    /\ UNCHANGED <<gpio, monitoring, demo_start_time, pipeline_run, now, celebrations>>
    /\ UNCHANGED <<service_vars, watcher_vars>>

\* Phase 1, and set_light_state("yellow") after it.
TimerBuild == TimerLoop("build", BuildSeconds, <<>>, "test", SetLightState("yellow"))

\* Phase 2.
TimerTest == TimerLoop("test", TestSeconds, <<>>, "deploy", <<>>)

\* Phase 3.
TimerDeploy == TimerLoop("deploy", DeploySeconds, FlashYellow, "complete", <<>>)

\* `if self.monitoring:` after the three phases, and the call of
\* success_celebration.
TimerComplete ==
    /\ threads.main.pc = "complete"
    /\ Ready("main")
    /\ IF monitoring
       THEN /\ threads' = [threads EXCEPT !.main.pc = "celebrating",
                                          !.main.todo = SuccessCelebration]
            /\ celebrations' =
                 Append(celebrations, [by |-> "main", run |-> pipeline_run])
       ELSE /\ threads' = [threads EXCEPT !.main.pc = "returned"]
            /\ UNCHANGED celebrations
    /\ UNCHANGED <<gpio, monitoring, demo_start_time, pipeline_run, now>>
    /\ UNCHANGED <<service_vars, watcher_vars>>

\* success_celebration has returned to run_manual_timer.
TimerFinish ==
    /\ threads.main.pc = "celebrating"
    /\ Ready("main")
    /\ monitoring' = FALSE
    /\ threads' = [threads EXCEPT !.main.pc = "returned"]
    /\ UNCHANGED <<gpio, demo_start_time, pipeline_run, now, celebrations>>
    /\ UNCHANGED <<service_vars, watcher_vars>>

\* Mutant of MonitorLoopCondition: `while True`.
MonitorLoopForever(flag) == TRUE

\* `while self.monitoring`
MonitorLoopCondition(flag) == flag

\* The test of the while loop of monitor_pipeline.
MonitorLoop ==
    /\ threads.monitor.pc = "loop"
    /\ Ready("monitor")
    /\ threads' = [threads EXCEPT !.monitor.pc =
                     IF MonitorLoopCondition(monitoring) THEN "poll" ELSE "exited"]
    /\ UNCHANGED <<gpio, monitoring, demo_start_time, pipeline_run, now, celebrations>>
    /\ UNCHANGED <<service_vars, watcher_vars>>

\* What get_pipeline_status can return: None (an error, a status other
\* than 200, no runs), or the status and conclusion of the latest run.
PollResults == {"none", pipeline_run}

\* The lights monitor_pipeline shows for a run that has not completed.
ProgressLights(elapsed) ==
    IF elapsed < BuildSeconds THEN SetLightState("red")
    ELSE IF elapsed < BuildSeconds + TestSeconds THEN SetLightState("yellow")
    ELSE FlashYellow

\* get_pipeline_status and the branch monitor_pipeline takes on its result.
MonitorPoll ==
    /\ threads.monitor.pc = "poll"
    /\ Ready("monitor")
    /\ \E status \in PollResults :
          IF status = "success"
          THEN /\ threads' = [threads EXCEPT !.monitor.pc = "celebrating",
                                             !.monitor.todo = SuccessCelebration]
               /\ celebrations' =
                    Append(celebrations, [by |-> "monitor", run |-> pipeline_run])
          ELSE /\ threads' =
                    [threads EXCEPT
                       !.monitor.pc = "sleep",
                       !.monitor.todo =
                          CASE status \in {"queued", "in_progress"} ->
                                 ProgressLights(now - demo_start_time)
                            [] status = "failure" -> SetLightState("red")
                            [] OTHER -> <<>>]
               /\ UNCHANGED celebrations
    /\ UNCHANGED <<gpio, monitoring, demo_start_time, pipeline_run, now>>
    /\ UNCHANGED <<service_vars, watcher_vars>>

\* success_celebration has returned to monitor_pipeline.
MonitorCelebrated ==
    /\ threads.monitor.pc = "celebrating"
    /\ Ready("monitor")
    /\ monitoring' = FALSE
    /\ threads' = [threads EXCEPT !.monitor.pc = "sleep"]
    /\ UNCHANGED <<gpio, demo_start_time, pipeline_run, now, celebrations>>
    /\ UNCHANGED <<service_vars, watcher_vars>>

\* time.sleep(10) at the end of a pass of the loop.
MonitorSleep ==
    /\ threads.monitor.pc = "sleep"
    /\ Ready("monitor")
    /\ threads' = [threads EXCEPT !.monitor.pc = "loop",
                                  !.monitor.wake = now + PollSeconds]
    /\ UNCHANGED <<gpio, monitoring, demo_start_time, pipeline_run, now, celebrations>>
    /\ UNCHANGED <<service_vars, watcher_vars>>

\* The workflow run on GitHub moves on.
PipelineAdvance ==
    /\ \/ pipeline_run = "none" /\ pipeline_run' = "queued"
       \/ pipeline_run = "queued" /\ pipeline_run' = "in_progress"
       \/ pipeline_run = "in_progress" /\ pipeline_run' \in {"success", "failure"}
    /\ UNCHANGED <<gpio, monitoring, demo_start_time, threads, now, celebrations>>
    /\ UNCHANGED <<service_vars, watcher_vars>>

\* run_manual_timer has returned and the monitor loop has exited.
DemoOver ==
    /\ threads.main.pc = "returned"
    /\ threads.monitor.pc = "exited"

\* The thread has work to do that takes no time.
Busy(t) ==
    \/ threads[t].todo # <<>> /\ Head(threads[t].todo).op = "output"
    \/ /\ threads[t].todo = <<>>
       /\ threads[t].pc \notin {"ready", "unstarted", "returned", "exited"}
       /\ threads[t].wake <= now

\* Time passes while every thread sleeps.
Tick ==
    /\ now < MaxClock
    /\ threads.main.pc # "ready"
    /\ ~DemoOver
    /\ \A t \in ThreadNames : ~Busy(t)
    /\ now' = now + 1
    /\ UNCHANGED <<gpio, monitoring, demo_start_time, threads, pipeline_run, celebrations>>
    /\ UNCHANGED <<service_vars, watcher_vars>>

TimerStep ==
    \/ StartMonitorThread
    \/ TimerBuild
    \/ TimerTest
    \/ TimerDeploy
    \/ TimerComplete
    \/ TimerFinish
    \/ RunStep("main")

MonitorStep ==
    \/ MonitorLoop
    \/ MonitorPoll
    \/ MonitorCelebrated
    \/ MonitorSleep
    \/ RunStep("monitor")

DemoInit == Init /\ app = "pipeline"

DemoNext ==
    \/ StartDemo
    \/ TimerStep
    \/ MonitorStep
    \/ PipelineAdvance
    \/ Tick

DemoSpec == DemoInit /\ [][DemoNext]_vars

\* Both threads are scheduled again and again, and the clock runs.
DemoLiveSpec ==
    DemoSpec /\ WF_vars(TimerStep) /\ WF_vars(MonitorStep) /\ WF_vars(Tick)

-----------------------------------------------------------------------------
(* The sync service: the observer started in main() watches two             *)
(* directories with one SASModelHandler. The emitters of the two watches    *)
(* put events on the observer's queue at any time; the observer, which is   *)
(* one thread, takes them off and calls on_modified for each. on_modified   *)
(* is taken one statement at a time.                                        *)

\* The directories main() schedules the handler on.
WatchedDirectories == {"model_artifacts", "git_sync"}

\* What a modification in a watched directory is reported as: a change of a
\* subdirectory, of a .flag file, or of another file.
WatchedEvents ==
    [directory : WatchedDirectories, is_directory : {TRUE}, flag : {FALSE}]
    \cup [directory : WatchedDirectories, is_directory : {FALSE}, flag : BOOLEAN]

\* The number of modifications reported in a behaviour.
MaxEvents == 3

\* A file in a watched directory changes: its event is queued.
FileModified ==
    /\ Len(event_queue) + Len(callbacks) < MaxEvents
    /\ \E event \in WatchedEvents : event_queue' = Append(event_queue, event)
    /\ UNCHANGED <<processing, callbacks>>
    /\ UNCHANGED <<service_vars, controller_vars>>

\* Mutant of DispatcherFree: every event gets a thread of its own.
DispatcherFreeAlways(running) == TRUE

\* The observer thread is not inside a handler call.
DispatcherFree(running) ==
    \A k \in DOMAIN running : running[k].pc = "returned"

\* The observer takes the next event off its queue and calls on_modified.
Dispatch ==
    /\ event_queue # <<>>
    /\ DispatcherFree(callbacks)
    /\ callbacks' = Append(callbacks,
                           [event |-> Head(event_queue), pc |-> "entered",
                            synced |-> FALSE])
    /\ event_queue' = Tail(event_queue)
    /\ UNCHANGED processing
    /\ UNCHANGED <<service_vars, controller_vars>>

AtPosition(k, position) == k \in DOMAIN callbacks /\ callbacks[k].pc = position

MoveTo(k, position) == callbacks' = [callbacks EXCEPT ![k].pc = position]

\* `if event.is_directory: return` and the test
\* `event.src_path.endswith('.flag') and not self.processing`.
OnModifiedTest(k) ==
    /\ AtPosition(k, "entered")
    /\ LET event == callbacks[k].event
       IN  IF event.is_directory THEN MoveTo(k, "returned")
           ELSE IF event.flag /\ ~processing THEN MoveTo(k, "passed")
           ELSE MoveTo(k, "returned")
    /\ UNCHANGED <<processing, event_queue>>
    /\ UNCHANGED <<service_vars, controller_vars>>

\* `self.processing = True`, and sync_model_artifacts is called.
OnModifiedSet(k) ==
    /\ AtPosition(k, "passed")
    /\ processing' = TRUE
    /\ callbacks' = [callbacks EXCEPT ![k].pc = "copying", ![k].synced = TRUE]
    /\ UNCHANGED event_queue
    /\ UNCHANGED <<service_vars, controller_vars>>

\* The stages of sync_model_artifacts: the files are copied and converted,
\* the metadata updated, the change committed and pushed.
SyncStage(k) ==
    /\ \/ AtPosition(k, "copying") /\ MoveTo(k, "updating")
       \/ AtPosition(k, "updating") /\ MoveTo(k, "pushing")
       \/ AtPosition(k, "pushing") /\ MoveTo(k, "synced")
    /\ UNCHANGED <<processing, event_queue>>
    /\ UNCHANGED <<service_vars, controller_vars>>

\* `self.processing = False`, and on_modified returns.
OnModifiedReset(k) ==
    /\ AtPosition(k, "synced")
    /\ processing' = FALSE
    /\ MoveTo(k, "returned")
    /\ UNCHANGED event_queue
    /\ UNCHANGED <<service_vars, controller_vars>>

\* The on_modified calls that are inside sync_model_artifacts.
SyncsInProgress ==
    {k \in DOMAIN callbacks : callbacks[k].pc \in {"copying", "updating", "pushing"}}

WatcherInit == Init /\ app = "pipeline"

WatcherNext ==
    \/ FileModified
    \/ Dispatch
    \/ \E k \in 1..MaxEvents : OnModifiedTest(k)
    \/ \E k \in 1..MaxEvents : OnModifiedSet(k)
    \/ \E k \in 1..MaxEvents : SyncStage(k)
    \/ \E k \in 1..MaxEvents : OnModifiedReset(k)

WatcherSpec == WatcherInit /\ [][WatcherNext]_vars

----------------------------------------------------------------------------
(* Properties                                                              *)

Responded(a, endpoint) ==
    app = a /\ pc = "responded" /\ response.endpoint = endpoint

Answered(a, endpoint) == Responded(a, endpoint) /\ response.status = 200

\* The risk level the documented thresholds give a returned probability
\* (1e-4 units).
DocumentedLevel(p) ==
    IF p < 3000 THEN "low_risk" ELSE IF p < 7000 THEN "medium_risk" ELSE "high_risk"

\* C1: every assessment returns a risk_probability in [0.005, 0.85] and a
\* risk_level that the thresholds 0.3 and 0.7 give for that returned
\* probability.
C1_ProbabilityBoundedLevelConsistent ==
    Answered("pipeline", "assess") =>
        /\ response.body.risk_probability \in 50..8500
        /\ response.body.risk_level = DocumentedLevel(response.body.risk_probability)

C3_FallbackPredictsHalfLowRisk ==
    (Responded("pipeline", "predict") /\ coefficients = FallbackTable
        /\ ValidRequest(request)) =>
        /\ "Fallback" \notin DOMAIN RequestDict(request)
        /\ response.status = 200
        /\ response.body.risk_probability * 2 = FixOne
        /\ response.body.prediction = "low_risk"

C3_Witness ==
    /\ Answered("pipeline", "predict")
    /\ fallback_loaded
    /\ coefficients = FallbackTable
    /\ request = Body(HighRiskCustomer, HighRiskAlt)
    /\ response.body.prediction = "low_risk"

\* C4: while the coefficient table is empty, a predict call is refused as
\* "not ready" (503) and returns no probability.
C4_EmptyTableNeverPredicts ==
    (pc = "responded" /\ response.endpoint = "predict" /\ ValidRequest(request)
        /\ coefficients = EmptyTable) =>
        response.status = 503

\* C5: whenever load_sas_model finds the configuration missing or invalid, it
\* ends holding the fallback table with the model ready.
C5_InvalidConfigurationLoadsFallback ==
    (app = "pipeline" /\ loader_pc = "done" /\ config = "invalid") =>
        /\ coefficients = FallbackTable
        /\ model_ready

\* C6: the health response after a successful load of real artifacts differs
\* from the health response after a fallback load.
C6_HealthDistinguishesFallback ==
    (Answered("pipeline", "health") /\ config = "valid" /\ ~fallback_loaded) =>
        response.body # HealthBody(TRUE, FallbackMetadata)

\* C7: assess_comprehensive and the advisory answer every valid request,
\* whatever the state of the coefficient loader.
C7_HeuristicScorerAlwaysReady ==
    ((Responded("pipeline", "assess") \/ Responded("pipeline", "advisory"))
        /\ ValidRequest(request)) =>
        response.status = 200

\* C8: investment_readiness_score is in [0, 1] and the four contributions
\* never add up to more than the cap of 1.0.
C8_InvestmentReadinessBounded ==
    Answered("pipeline", "assess") =>
        /\ response.body.investment_readiness_score \in 0..100
        /\ InvestmentRawScore(RequestDict(request)) <= 10
        /\ response.body.investment_readiness_score
             = 10 * InvestmentRawScore(RequestDict(request))

C8_Witness ==
    /\ Answered("pipeline", "assess")
    /\ response.body.investment_readiness_score = 100

\* The requests of scenario 2: the high-risk customer with 4 late payments,
\* 6 overdrafts and SocialMediaRiskScore s.
IsHighRiskScenario(raw, s) ==
    /\ ValidRequest(raw)
    /\ Without(raw, OptionalNames) = HighRiskCustomer
    /\ Get(raw, "LatePayments", 0) = 4
    /\ Get(raw, "OverdraftEvents", 0) = 6
    /\ Get(raw, "SocialMediaRiskScore", 0) = s

\* C9: the high-risk customer (Income 35000, Age 24, LoanAmount 250000,
\* CreditScore 580, DebtToIncome 0.65, EmploymentYears 2, LatePayments 4,
\* OverdraftEvents 6, SocialMediaRiskScore 0.8 or 4) is assessed high risk.
C9_HighRiskCustomerIsHighRisk ==
    (Answered("pipeline", "assess")
        /\ (IsHighRiskScenario(request, 8) \/ IsHighRiskScenario(request, 40))) =>
        response.body.risk_level = "high_risk"

C9_Witness ==
    /\ Answered("pipeline", "assess")
    /\ IsHighRiskScenario(request, 40)
    /\ "DeviceUsageScore" \notin DOMAIN request
    /\ response.body.risk_level = "high_risk"

\* The features the specification states for a request: an omitted optional
\* field at its stated default, AccountTenure at EmploymentYears * 12.
StatedFeatures(raw) ==
    [k \in FieldNames |->
        IF k \in DOMAIN raw THEN raw[k]
        ELSE IF k = "AccountTenure" THEN raw["EmploymentYears"] * 12
        ELSE RequestDefaults[k]]

\* C10: a request that omits optional fields is assessed as the same request
\* with the stated defaults filled in (SocialMediaRiskScore 0.3,
\* DeviceUsageScore 0.7, NumberOfProducts 2, HasInvestmentAccount false,
\* LatePayments 0, OverdraftEvents 1, AccountTenure EmploymentYears * 12).
C10_OmittedFieldsTakeStatedDefaults ==
    Answered("pipeline", "assess") =>
        response.body = AssessmentBody(metadata, StatedFeatures(request))

\* C11: in every predict result, of either app, the returned prediction is
\* "high_risk" exactly when the returned probability is greater than 0.5 and
\* "low_risk" otherwise.
C11_PredictionMatchesReturnedProbability ==
    /\ Answered("pipeline", "predict") =>
          (response.body.prediction = "high_risk"
              <=> response.body.risk_probability * 2 > FixOne)
          /\ response.body.prediction \in {"high_risk", "low_risk"}
    /\ Answered("draft", "predict") =>
          (response.body.prediction = "high_risk"
              <=> response.body.probability > 5000)
          /\ response.body.prediction \in {"high_risk", "low_risk"}

\* C12: once the load at startup is over, no handler (health, model/info,
\* predict, assess/comprehensive, advisory/improve, portfolio/insights,
\* contact/send, assessment/business), in any sequence, changes the
\* coefficient table, the metadata or the model_ready flag.
C12_HandlersLeaveLoaderStateUnchanged ==
    [][loader_pc = "done" =>
          UNCHANGED <<loader_pc, coefficients, metadata, model_ready>>]_vars

C12_Witness ==
    /\ Responded("pipeline", "business")
    /\ response.status = 200
    /\ coefficients = TrainedTable
    /\ model_ready

\* C17: customer_segment is premium exactly when Income > 100000 and
\* CreditScore > 750 and HasInvestmentAccount, whatever the risk level;
\* otherwise high_risk exactly when risk_level is high; otherwise emerging
\* exactly when Income < 40000 or CreditScore < 650; otherwise standard.
C17_SegmentFollowsDocumentedRules ==
    Answered("pipeline", "assess") =>
        LET f == RequestDict(request)
            premium == f.Income > 100000 /\ f.CreditScore > 750 /\ f.HasInvestmentAccount
            high == response.body.risk_level = "high_risk"
            emerging == f.Income < 40000 \/ f.CreditScore < 650
            segment == response.body.customer_segment
        IN  /\ segment = "premium" <=> premium
            /\ segment = "high_risk" <=> (~premium /\ high)
            /\ segment = "emerging" <=> (~premium /\ ~high /\ emerging)
            /\ segment = "standard" <=> (~premium /\ ~high /\ ~emerging)

C17_Witness ==
    /\ Answered("pipeline", "assess")
    /\ response.body.customer_segment = "premium"
    /\ response.body.risk_level = "high_risk"

\* C18: the confidence interval of an assessment is
\* [risk_probability - 0.1, risk_probability + 0.1] clamped to [0, 1], so
\* 0 <= lower_bound <= risk_probability <= upper_bound <= 1.
C18_ConfidenceIntervalClamped ==
    Answered("pipeline", "assess") =>
        LET p == response.body.risk_probability
            ci == response.body.confidence_interval
        IN  /\ ci.lower_bound = (IF p - 1000 < 0 THEN 0 ELSE p - 1000)
            /\ ci.upper_bound = (IF p + 1000 > 10000 THEN 10000 ELSE p + 1000)
            /\ 0 <= ci.lower_bound /\ ci.lower_bound <= p
            /\ p <= ci.upper_bound /\ ci.upper_bound <= 10000

C18_Witness ==
    /\ Answered("pipeline", "assess")
    /\ response.body.risk_probability \in 1..999
    /\ response.body.confidence_interval.lower_bound = 0

\* The entry of the plan for a condition: present when the condition holds.
PlanEntry(condition, action) == IF condition THEN <<action>> ELSE <<>>

\* C19: the improvement plan of a low or medium record is empty, and the
\* plan of a high record holds, in this order, one entry for each condition
\* that holds among DebtToIncome > 0.4, LatePayments > 2, CreditScore < 650,
\* SocialMediaRiskScore > 0.6, and nothing else.
C19_PlanOnlyForHighRisk ==
    Answered("pipeline", "advisory") =>
        LET f == RequestDict(request)
        IN  response.body.improvement_plan =
              IF response.body.current_risk_level # "high_risk" THEN <<>>
              ELSE PlanEntry(f.DebtToIncome > 40, "Reduce Debt-to-Income Ratio")
                   \o PlanEntry(f.LatePayments > 2, "Establish Perfect Payment History")
                   \o PlanEntry(f.CreditScore < 650, "Improve Credit Score")
                   \o PlanEntry(f.SocialMediaRiskScore > 6,
                                "Digital Footprint Optimization")

C19_Witness ==
    /\ Answered("pipeline", "advisory")
    /\ response.body.current_risk_level = "high_risk"
    /\ Len(response.body.improvement_plan) = 4

\* C20: upsell_products is the list the documented rules build in order:
\* for a low risk level "Investment Portfolio Management" (no investment
\* account and Income > 60000), "Premium Credit Card" (Income > 80000),
\* "Mortgage Pre-approval" (NumberOfProducts < 3); then "Private Banking
\* Services" and "Wealth Management" for the premium segment; then
\* "Retirement Planning" (Age > 45 and no investment account).
C20_UpsellFollowsDocumentedRules ==
    Answered("pipeline", "assess") =>
        LET f == RequestDict(request)
            low == response.body.risk_level = "low_risk"
        IN  response.body.upsell_products =
              PlanEntry(low /\ ~f.HasInvestmentAccount /\ f.Income > 60000,
                        "Investment Portfolio Management")
              \o PlanEntry(low /\ f.Income > 80000, "Premium Credit Card")
              \o PlanEntry(low /\ f.NumberOfProducts < 3, "Mortgage Pre-approval")
              \o (IF response.body.customer_segment = "premium"
                  THEN <<"Private Banking Services", "Wealth Management">>
                  ELSE <<>>)
              \o PlanEntry(f.Age > 45 /\ ~f.HasInvestmentAccount, "Retirement Planning")

C20_Witness ==
    /\ Answered("pipeline", "assess")
    /\ response.body.upsell_products =
         <<"Investment Portfolio Management", "Premium Credit Card",
           "Mortgage Pre-approval", "Retirement Planning">>

\* C13: whatever the interleaving of the predict and assess calls in flight,
\* each call returns what the handler returns when it runs alone on the same
\* feature record and coefficient table, and no step of a call writes the
\* shared loader state.
C13_ScoringDeterministicUnderInterleaving ==
    /\ [](\A w \in Workers :
            (calls[w].pc = "returned" /\ calls[w].status = 200) =>
                calls[w].body =
                    IF calls[w].endpoint = "predict"
                    THEN PredictBody(coefficients, metadata, RequestDict(calls[w].request))
                    ELSE AssessmentBody(metadata, RequestDict(calls[w].request)))
    /\ [][loader_pc = "done" =>
            UNCHANGED <<coefficients, metadata, model_ready>>]_vars

C13_Witness ==
    /\ calls["w1"].pc = "returned"
    /\ calls["w1"].endpoint = "predict"
    /\ calls["w1"].status = 200
    /\ calls["w1"].body.prediction = "high_risk"
    /\ calls["w2"].pc = "build"
    /\ calls["w2"].endpoint = "assess"

HoldsExampleCoefficients(doc) ==
    /\ doc.kind = "object"
    /\ Get(Get(doc.data, "coefficients", <<>>), "CreditScore", 0) = -2000
    /\ \/ Get(Get(doc.data, "coefficients", <<>>), "Intercept", 0) = 100000
       \/ Get(doc.data, "intercept", 0) = 100000

\* C15: a coefficient set with Intercept = 0.1 and CreditScore = -0.002 that
\* convert_coefficients_to_text wrote and ModelLoader.load_model_artifacts
\* read back gives a table with both entries, exactly.
C15_CoefficientRoundTrip ==
    (app = "draft" /\ loader_pc \in {"done", "crashed"} /\ artifacts.synced
        /\ HoldsExampleCoefficients(artifacts.sas_output.coefficients)) =>
        /\ {"Intercept", "CreditScore"} \subseteq DOMAIN coefficients
        /\ coefficients["Intercept"] = 100000
        /\ coefficients["CreditScore"] = -2000

\* C16: the model_metadata.json a sync run leaves from a deployment config
\* (convert_deployment_to_metadata, then update_model_metadata) is a JSON
\* object with the keys model_name and model_version, which the ModelLoader
\* reads without error.
C16_SyncedMetadataHasRequiredKeys ==
    (app = "draft" /\ artifacts.synced
        /\ artifacts.sas_output.config.kind = "object") =>
        /\ artifacts.metadata.kind = "object"
        /\ {"model_name", "model_version"} \subseteq DOMAIN artifacts.metadata.data
        /\ loader_pc = "crashed" =>
              \/ artifacts.coefficients.kind = "absent"
              \/ ParseCoefficientLines(artifacts.coefficients.lines, EmptyTable).failed

\* C21: predict_batch returns one prediction per submitted request, in the
\* order of the requests, each equal to what predict returns for that
\* request alone.
C21_BatchMatchesSinglePredictions ==
    Answered("draft", "predict_batch") =>
        /\ Len(response.body.predictions) = Len(request)
        /\ \A i \in DOMAIN request :
              response.body.predictions[i]
                = DraftPredictBody(coefficients, metadata, DraftRequestDict(request[i]))

C21_Witness ==
    /\ Answered("draft", "predict_batch")
    /\ request = <<StandardCustomer, TestHighRiskCustomer>>
    /\ response.body.predictions[1] # response.body.predictions[2]

C23_ScorersNeverRaise ==
    /\ (app = "pipeline" /\ pc = "responded"
          /\ response.endpoint \in {"predict", "assess", "advisory"}
          /\ ValidRequest(request) /\ model_ready) =>
            response.status = 200
    /\ (Responded("draft", "predict") /\ ValidRequest(request)) =>
            response.status = 200

C23_Witness ==
    /\ Answered("pipeline", "assess")
    /\ request = Body(ZeroCustomer, <<>>)
    /\ response.body.risk_level = "medium_risk"

\* C29: an advisory that reports a high current risk level carries at least
\* one recommendation in its improvement plan.
C29_HighRiskAdvisoryHasPlan ==
    (Answered("pipeline", "advisory")
       /\ response.body.current_risk_level = "high_risk") =>
        /\ response.body.target_timeline = "4-6 months"
        /\ response.body.expected_improvement = 25
        /\ Len(response.body.improvement_plan) >= 1

\* The rank of a risk level, low to high.
RiskRank(level) ==
    CASE level = "low_risk" -> 0 [] level = "medium_risk" -> 1 [] OTHER -> 2

\* C30: a record that differs from the assessed one only by a higher
\* CreditScore gets neither a higher risk_probability nor a higher
\* risk_level.
C30_MonotoneInCreditScore ==
    Answered("pipeline", "assess") =>
        LET f == RequestDict(request)
        IN  \A cs \in CreditValues :
              cs > f.CreditScore =>
                LET better ==
                      CalculateComprehensiveAssessment([f EXCEPT !.CreditScore = cs])
                IN  /\ better.risk_probability <= response.body.risk_probability
                    /\ RiskRank(better.risk_level) <= RiskRank(response.body.risk_level)

C30_Witness ==
    /\ Answered("pipeline", "assess")
    /\ LET f == RequestDict(request)
           better == CalculateComprehensiveAssessment([f EXCEPT !.CreditScore = 780])
       IN  /\ f.CreditScore = 630
           /\ f.DebtToIncome > 40
           /\ f.Income > 100000
           /\ f.HasInvestmentAccount
           /\ response.body.risk_level = "medium_risk"
           /\ better.risk_level = "low_risk"
           /\ better.risk_probability < response.body.risk_probability
\* C24: when the run has completed with a conclusion other than success and
\* no celebration had begun before that, no celebration runs and the demo
\* does not end with the green light on.
C24_NoCelebrationAfterFailure ==
    (pipeline_run = "failure"
       /\ \A k \in DOMAIN celebrations : celebrations[k].run = "failure") =>
        /\ celebrations = <<>>
        /\ DemoOver => ~gpio[GREEN_LED]

\* C25: success_celebration runs at most once in a demo.
C25_CelebrationAtMostOnce == Len(celebrations) <= 1

\* A demo is running: the manual timer and the monitor loop are both active.
DemoRunning ==
    /\ threads.main.pc \in {"build", "test", "deploy", "complete"}
    /\ threads.monitor.pc \in {"loop", "poll", "sleep"}

\* C26: while a demo is running and no celebration is going on, at most
\* one of the red, yellow and green lights is on.
C26_OneLightAtATime ==
    DemoRunning => Cardinality({p \in Leds : gpio[p]}) <= 1

====
